---- MODULE Spec2Model ----
(***************************************************************************)
(* Unity Game Portal API (src/main.py): the stateless bearer-token scheme  *)
(* (create_token / verify_token) and the request handlers that read and    *)
(* write the "user" and "save" collections (register, login, get_saves,    *)
(* upsert_save).                                                           *)
(*                                                                         *)
(* Strings are sequences of one-character strings, so that split, int(),   *)
(* str() and the hex digest act on characters.  The clock counts ticks of  *)
(* 1/Res second; int(datetime.timestamp()) truncates ticks to seconds.     *)
(*                                                                         *)
(* SpecToken applies create_token and verify_token to issued, tampered,    *)
(* arbitrary and signed-but-malformed strings at chosen clocks.  Spec runs *)
(* the request handlers on NProcs concurrent workers, each store call      *)
(* (find_one, insert_one, update_one) one atomic step; SpecSeq runs them   *)
(* one request at a time.  The database is configured (db is not None).    *)
(***************************************************************************)
EXTENDS Integers, Sequences, FiniteSets, TLC

\* ------------------------------------------------------------------ bounds
\* clock ticks per second (datetime has sub-second precision)
Res == 2
\* how many times the clock may advance in one behaviour
MaxTicks == 3
\* TOKEN_EXP_MIN is drawn from 1..MaxExpMin
MaxExpMin == 2
\* SECRET_KEY is drawn from 1..MaxKey
MaxKey == 2
\* hex characters kept of a digest (64 for SHA-256)
DigestLen == 6
\* longest arbitrary string presented to verify_token
MaxLen == 4
\* longest expiry field of a signed but malformed token
MaxExpLen == 2
\* request workers running concurrently
NProcs == 2
\* requests per behaviour that pass validation (refused ones are not counted)
MaxReq == 3

\* ------------------------------------------------------------- characters
HexDigits == <<"0", "1", "2", "3", "4", "5", "6", "7", "8", "9",
               "a", "b", "c", "d", "e", "f">>

\* "~" stands for any character outside ASCII
Alphabet == HexDigits \o <<":", "-", "~">>

IsAscii(s) == \A i \in 1..Len(s) : s[i] # "~"

Code(c) == CHOOSE i \in 1..Len(Alphabet) : Alphabet[i] = c

DecDigit(c) == (CHOOSE i \in 1..10 : HexDigits[i] = c) - 1

IsDecDigit(c) == \E i \in 1..10 : HexDigits[i] = c

RECURSIVE Pow(_, _)
Pow(b, n) == IF n = 0 THEN 1 ELSE b * Pow(b, n - 1)

\* all strings over the characters cs of length at most n
RECURSIVE StrsUpTo(_, _)
StrsUpTo(cs, n) ==
    IF n = 0 THEN {<<>>}
    ELSE LET shorter == StrsUpTo(cs, n - 1)
         IN  shorter \cup {Append(s, c) : s \in shorter, c \in cs}

\* ------------------------------------------------ str(), int(), str.split
\* str(n) / f"{n}" for an int n
RECURSIVE IntToStr(_)
IntToStr(n) ==
    IF n < 0 THEN <<"-">> \o IntToStr(0 - n)
    ELSE IF n < 10 THEN <<HexDigits[n + 1]>>
    ELSE IntToStr(n \div 10) \o <<HexDigits[(n % 10) + 1]>>

RECURSIVE DigitsValue(_)
DigitsValue(s) ==
    IF s = <<>> THEN 0
    ELSE 10 * DigitsValue(SubSeq(s, 1, Len(s) - 1)) + DecDigit(s[Len(s)])

\* int(s): an optional sign, then one or more decimal digits; anything else
\* raises ValueError (ok = FALSE).  (White space, "+" and "_", which int()
\* also takes, are not in the alphabet.)
ParseInt(s) ==
    LET neg  == s # <<>> /\ s[1] = "-"
        body == IF neg THEN Tail(s) ELSE s
    IN  IF body # <<>> /\ \A i \in 1..Len(body) : IsDecDigit(body[i])
        THEN [ok |-> TRUE,
              val |-> IF neg THEN 0 - DigitsValue(body) ELSE DigitsValue(body)]
        ELSE [ok |-> FALSE, val |-> 0]

\* s.split(sep): the fields between the separators, empty fields kept
RECURSIVE Split(_, _)
Split(s, sep) ==
    IF \A i \in 1..Len(s) : s[i] # sep THEN <<s>>
    ELSE LET k == CHOOSE i \in 1..Len(s) :
                      s[i] = sep /\ \A j \in 1..(i - 1) : s[j] # sep
         IN  <<SubSeq(s, 1, k - 1)>> \o Split(SubSeq(s, k + 1, Len(s)), sep)

\* f"{a}:{b}"
Payload(a, b) == a \o <<":">> \o b

\* --------------------------------------------------------------- the MAC
\* hmac.new(key, msg, sha256).hexdigest(): DigestLen lower-case hex
\* characters.  The keyed positional mix below has no collisions on the
\* messages the model forms, which is what SHA-256's collision resistance
\* gives the program.
Modulus == Pow(16, DigestLen)

CodeOf == [c \in {Alphabet[i] : i \in 1..Len(Alphabet)} |-> Code(c)]

RECURSIVE Mix(_, _)
Mix(h, msg) ==
    IF msg = <<>> THEN h
    ELSE Mix((h * (Len(Alphabet) + 1) + CodeOf[msg[1]]) % Modulus, Tail(msg))

RECURSIVE ToHex(_, _)
ToHex(n, width) ==
    IF width = 0 THEN <<>>
    ELSE ToHex(n \div 16, width - 1) \o <<HexDigits[(n % 16) + 1]>>

hexdigest(key, msg) == ToHex(Mix(key, msg), DigestLen)

\* variant: the last character is left out of the comparison
compare_digest_truncated(a, b) ==
    Len(a) = Len(b) /\ \A i \in 1..(Len(a) - 1) : a[i] = b[i]

\* hmac.compare_digest(a, b): equality, in constant time; it raises TypeError
\* for a str with a character outside ASCII (see verify_try)
compare_digest(a, b) == a = b

\* ------------------------------------------------------------------ state
VARIABLES
    clock,          \* datetime.now(timezone.utc), in ticks of 1/Res second
    nTicks,         \* how often the clock has advanced
    SECRET_KEY,     \* main.py:26, read once at start-up
    TOKEN_EXP_MIN,  \* main.py:27, token lifetime in minutes
    tok,            \* the string handed to verify_token
    origin,         \* where tok came from
    vres,           \* the last call of verify_token on tok
    rejected,       \* verify_token has returned None for tok before
    users,          \* db["user"], in natural (insertion) order
    saves,          \* db["save"], in natural (insertion) order
    pc,             \* where each request worker stands
    loc,            \* each request worker's local variables
    issued,         \* the tokens the responses have handed to clients
    last,           \* the last response that carried a save document
    lastWrite,      \* the save document as the last committed write left it
    firstAt,        \* per (user_id, game_slug): `now` of the first upsert committed
    nReq            \* requests that have passed validation

clockVars == <<clock, nTicks>>
confVars  == <<SECRET_KEY, TOKEN_EXP_MIN>>
tokVars   == <<tok, origin, vres, rejected>>
dbVars    == <<users, saves>>
reqVars   == <<pc, loc, issued, last, lastWrite, firstAt, nReq>>

\* identities: str(ObjectId), hex characters, never the delimiter
Identities == {<<"a">>, <<"b">>}

\* int(dt.timestamp()): whole seconds, the fraction dropped
Timestamp(t) == t \div Res

\* timedelta(minutes=m), in ticks
Minutes(m) == m * 60 * Res

\* ---------------------------------------------------- results of a call
Return(v)   == [kind |-> "return", none |-> FALSE, val |-> v]
ReturnNone  == [kind |-> "return", none |-> TRUE,  val |-> <<>>]
Raise(e)    == [kind |-> e,        none |-> FALSE, val |-> <<>>]

\* --------------------------------------------------------- create_token
\* variant: the signature covers the subject only
create_token_unsigned_exp(user_id) ==
    LET exp     == Timestamp(clock + Minutes(TOKEN_EXP_MIN))
        payload == Payload(user_id, IntToStr(exp))
        sig     == hexdigest(SECRET_KEY, user_id)
    IN  Payload(payload, sig)

\* main.py:35-39
create_token(user_id) ==
    LET exp     == Timestamp(clock + Minutes(TOKEN_EXP_MIN))
        payload == Payload(user_id, IntToStr(exp))
        sig     == hexdigest(SECRET_KEY, payload)
    IN  Payload(payload, sig)

\* --------------------------------------------------------- verify_token
\* variants: the token lives one second longer; it dies one second sooner
expired_off_by_one(exp, now) == exp + 1 < now

expired_at_equality(exp, now) == exp <= now

\* main.py:49, the expiry test, on whole seconds
expired(exp, now) == exp < now

\* variant: no handler, the exception leaves verify_token
except_value_error_escapes(r) == r

\* main.py:52-53, except Exception: return None
except_Exception(r) == IF r.kind = "return" THEN r ELSE ReturnNone

\* the try block at time t (ticks)
verify_try(token, t) ==
    LET parts == Split(token, ":")
    IN  IF Len(parts) # 3 THEN Raise("ValueError")
        ELSE LET user_id  == parts[1]
                 exp_s    == parts[2]
                 sig      == parts[3]
                 expected == hexdigest(SECRET_KEY, Payload(user_id, exp_s))
                 exp      == ParseInt(exp_s)
             IN  IF ~IsAscii(sig) THEN Raise("TypeError")
                 ELSE IF ~compare_digest(expected, sig) THEN ReturnNone
                 ELSE IF ~exp.ok THEN Raise("ValueError")
                 ELSE IF expired(exp.val, Timestamp(t)) THEN ReturnNone
                 ELSE Return(user_id)

verify_token_at(token, t) == except_Exception(verify_try(token, t))

verify_token(token) == verify_token_at(token, clock)

\* ------------------------------------------------------------ the clock
NoOrigin == [kind |-> "none", sub |-> <<>>, at |-> 0, field |-> 0]

NotVerified == [done |-> FALSE, at |-> 0, res |-> ReturnNone]

\* the clock advances by one tick or by one minute
ClockSteps == {1, Minutes(1)}

Tick ==
    /\ nTicks < MaxTicks
    /\ \E d \in ClockSteps : clock' = clock + d
    /\ nTicks' = nTicks + 1
    /\ vres' = NotVerified
    /\ UNCHANGED <<confVars, tok, origin, rejected, dbVars, reqVars>>

\* -------------------------------------- verify_token on chosen strings
\* characters an arbitrary string is made of
PresentChars == {"a", "1", ":", "~"}

\* characters the expiry field of a signed string is made of
SignedExpChars == {"1", "-", "a"}

\* characters a tampered position is changed to
TamperChars == {"1", "9", "a", ":"}

\* the field (1..3) position i of tok lies in
FieldOf(s, i) == 1 + Cardinality({j \in 1..(i - 1) : s[j] = ":"})

\* create_token(u) is called and its token kept
Issue ==
    /\ origin.kind = "none"
    /\ \E u \in Identities :
          /\ tok' = create_token(u)
          /\ origin' = [kind |-> "issued", sub |-> u, at |-> clock, field |-> 0]
    /\ UNCHANGED <<clockVars, confVars, vres, rejected, dbVars, reqVars>>

\* one character of a field of an issued token is changed, the rest kept
Tamper ==
    /\ origin.kind = "issued"
    /\ \E i \in 1..Len(tok), c \in TamperChars :
          /\ tok[i] # ":"
          /\ tok[i] # c
          /\ tok' = [tok EXCEPT ![i] = c]
          /\ origin' = [origin EXCEPT !.kind = "tampered", !.field = FieldOf(tok, i)]
    /\ vres' = NotVerified
    /\ rejected' = FALSE
    /\ UNCHANGED <<clockVars, confVars, dbVars, reqVars>>

\* an arbitrary string
Present ==
    /\ origin.kind = "none"
    /\ \E s \in StrsUpTo(PresentChars, MaxLen) :
          tok' = s
    /\ origin' = [NoOrigin EXCEPT !.kind = "arbitrary"]
    /\ UNCHANGED <<clockVars, confVars, vres, rejected, dbVars, reqVars>>

\* a string with three fields and the right signature, whose expiry field
\* is arbitrary
PresentSigned ==
    /\ origin.kind = "none"
    /\ \E u \in Identities, e \in StrsUpTo(SignedExpChars, MaxExpLen) :
          /\ tok' = Payload(Payload(u, e), hexdigest(SECRET_KEY, Payload(u, e)))
          /\ origin' = [NoOrigin EXCEPT !.kind = "signed", !.sub = u]
    /\ UNCHANGED <<clockVars, confVars, vres, rejected, dbVars, reqVars>>

Verify ==
    /\ origin.kind # "none"
    /\ vres' = [done |-> TRUE, at |-> clock, res |-> verify_token(tok)]
    /\ rejected' = (rejected \/ vres'.res.none \/ vres'.res.kind # "return")
    /\ UNCHANGED <<clockVars, confVars, tok, origin, dbVars, reqVars>>

\* ------------------------------------------------------ the collections
Procs == 1..NProcs

Emails == {"X@g.io", "y@g.io"}

Passwords == {"pw", "guess"}

\* the password a registration sets
RegPasswords == {"pw"}

Games == {"tower-defence"}

\* SavePayload.data: arbitrary documents
Payloads == {[level |-> 3], [score |-> 5]}

\* str.lower() on the e-mail addresses used
Lower(e) == IF e = "X@g.io" THEN "x@g.io" ELSE e

\* main.py:30-32, sha256(salt + password).hexdigest()
hash_password(password) == <<"sha256", "static-salt", password>>

NoUser == [_id |-> <<>>, email |-> "", password_hash |-> <<>>, created_at |-> 0]

NoSave == [_id |-> 0, user_id |-> <<>>, game_slug |-> "", data |-> [none |-> 0],
           created_at |-> 0, updated_at |-> 0]

\* str(ObjectId) of the n-th document inserted into db["user"]
UserId(n) == <<HexDigits[10 + n]>>

\* collection.find_one(filter): the first match in natural order, or None
First(hits) == CHOOSE i \in hits : \A j \in hits : i <= j

user_find_one(email) ==
    LET hits == {i \in 1..Len(users) : users[i].email = email}
    IN  IF hits = {} THEN NoUser ELSE users[First(hits)]

save_find_one(user_id, game_slug) ==
    LET hits == {i \in 1..Len(saves) :
                    saves[i].user_id = user_id /\ saves[i].game_slug = game_slug}
    IN  IF hits = {} THEN NoSave ELSE saves[First(hits)]

\* variant: the new data is merged into the old
save_update_merging(id, data, now) ==
    [i \in 1..Len(saves) |->
        IF saves[i]._id = id
        THEN [saves[i] EXCEPT !.data = data @@ saves[i].data, !.updated_at = now]
        ELSE saves[i]]

\* db["save"].update_one({"_id": id}, {"$set": {"data": .., "updated_at": ..}})
save_update_one(id, data, now) ==
    [i \in 1..Len(saves) |->
        IF saves[i]._id = id
        THEN [saves[i] EXCEPT !.data = data, !.updated_at = now]
        ELSE saves[i]]

\* ---------------------------------------------------- get_current_user_id
NoAuth == [present |-> FALSE, scheme |-> "", token |-> <<>>]

Bearer(t) == [present |-> TRUE, scheme |-> "Bearer", token |-> t]

Basic(t) == [present |-> TRUE, scheme |-> "Basic", token |-> t]

\* the token t with its subject field replaced by u, signature kept
Resubject(t, u) == u \o SubSeq(t, Len(Split(t, ":")[1]) + 1, Len(t))

\* the Authorization values a client may send
AuthChoices ==
    {NoAuth}
    \cup {Bearer(t) : t \in issued}
    \cup {Basic(t) : t \in issued}
    \cup {Bearer(<<"a">>)}
    \cup {Bearer(Resubject(t, users[i]._id)) : t \in issued, i \in 1..Len(users)}

\* authorization.lower().startswith("bearer ")
IsBearer(a) == a.scheme \in {"Bearer", "bearer", "BEARER"}

\* variant: the subject field is taken without verify_token
uid_unchecked(a, t) ==
    LET parts == Split(a.token, ":")
    IN  IF ~a.present \/ ~IsBearer(a) THEN Raise("401")
        ELSE IF parts[1] = <<>> THEN Raise("401")
        ELSE Return(parts[1])

\* main.py:154-161; HTTPException(401) is [kind |-> "401"]
get_current_user_id_at(a, t) ==
    LET uid == verify_token_at(a.token, t)
    IN  IF ~a.present \/ ~IsBearer(a) THEN Raise("401")
        ELSE IF uid.none \/ uid.val = <<>> THEN Raise("401")
        ELSE Return(uid.val)

get_current_user_id(a) == get_current_user_id_at(a, clock)

\* ------------------------------------------------------------- responses
NoLocals == [auth |-> NoAuth, at |-> 0, uid |-> <<>>, game |-> "",
             data |-> [none |-> 0], now |-> 0, existing |-> NoSave,
             doc |-> NoUser]

Response(op, l, rec) ==
    [op |-> op, auth |-> l.auth, at |-> l.at, uid |-> l.uid, game |-> l.game,
     data |-> l.data, now |-> l.now, existing |-> l.existing, rec |-> rec]

\* ------------------------------------------------- POST /auth/register
\* main.py:117-128: find_one by e-mail, then build the document
RegisterStart(p) ==
    /\ pc[p] = "idle"
    /\ nReq < MaxReq
    /\ \E email \in Emails, password \in RegPasswords :
          LET existing == user_find_one(Lower(email))
              doc == [_id |-> <<>>, email |-> Lower(email),
                      password_hash |-> hash_password(password),
                      created_at |-> clock]
          IN  IF existing # NoUser
              THEN UNCHANGED <<pc, loc, nReq>>
              ELSE /\ pc' = [pc EXCEPT ![p] = "register_insert"]
                   /\ loc' = [loc EXCEPT ![p] = [NoLocals EXCEPT !.doc = doc]]
                   /\ nReq' = nReq + 1
    /\ UNCHANGED <<clockVars, confVars, tokVars, dbVars, issued, last, lastWrite, firstAt>>

\* main.py:129-132: insert_one, then create_token(str(inserted_id))
RegisterInsert(p) ==
    /\ pc[p] = "register_insert"
    /\ LET inserted_id == UserId(Len(users) + 1)
       IN  /\ users' = Append(users, [loc[p].doc EXCEPT !._id = inserted_id])
           /\ issued' = issued \cup {create_token(inserted_id)}
    /\ pc' = [pc EXCEPT ![p] = "idle"]
    /\ loc' = [loc EXCEPT ![p] = NoLocals]
    /\ UNCHANGED <<clockVars, confVars, tokVars, saves, last, lastWrite, firstAt, nReq>>

\* ---------------------------------------------------- POST /auth/login
Login(p) ==
    /\ pc[p] = "idle"
    /\ nReq < MaxReq
    /\ \E email \in Emails, password \in Passwords :
          LET user == user_find_one(Lower(email))
          IN  IF user = NoUser \/ user.password_hash # hash_password(password)
              THEN UNCHANGED <<issued, nReq>>
              ELSE /\ issued' = issued \cup {create_token(user._id)}
                   /\ nReq' = nReq + 1
    /\ UNCHANGED <<clockVars, confVars, tokVars, dbVars, pc, loc, last, lastWrite, firstAt>>

\* ------------------------------------------------ GET /saves/{game_slug}
get_saves(p) ==
    /\ pc[p] = "idle"
    /\ \E authorization \in AuthChoices, game_slug \in Games :
          LET user_id == get_current_user_id(authorization)
              l    == [NoLocals EXCEPT !.auth = authorization, !.at = clock,
                                       !.uid = user_id.val, !.game = game_slug]
              save == save_find_one(user_id.val, game_slug)
          IN  IF ~authorization.present
              THEN UNCHANGED last
              ELSE IF user_id.kind # "return"
              THEN UNCHANGED last
              ELSE IF save # NoSave
              THEN last' = Response("returned", l, save)
              ELSE UNCHANGED last
    /\ UNCHANGED <<clockVars, confVars, tokVars, dbVars, pc, loc, issued, lastWrite,
                   firstAt, nReq>>

\* ------------------------------------------------------- POST /saves
\* main.py:202-203: get_current_user_id, then now = datetime.now()
UpsertStart(p) ==
    /\ pc[p] = "idle"
    /\ nReq < MaxReq
    /\ \E authorization \in AuthChoices, game_slug \in Games, data \in Payloads :
          LET user_id == get_current_user_id(authorization)
              l == [NoLocals EXCEPT !.auth = authorization, !.at = clock,
                                    !.uid = user_id.val, !.game = game_slug,
                                    !.data = data, !.now = clock]
          IN  IF user_id.kind # "return"
              THEN UNCHANGED <<pc, loc, nReq>>
              ELSE /\ pc' = [pc EXCEPT ![p] = "upsert_find"]
                   /\ loc' = [loc EXCEPT ![p] = l]
                   /\ nReq' = nReq + 1
    /\ UNCHANGED <<clockVars, confVars, tokVars, dbVars, issued, last, lastWrite, firstAt>>

\* main.py:204: existing = db["save"].find_one(...)
UpsertFind(p) ==
    /\ pc[p] = "upsert_find"
    /\ loc' = [loc EXCEPT ![p].existing = save_find_one(loc[p].uid, loc[p].game)]
    /\ pc' = [pc EXCEPT ![p] = "upsert_write"]
    /\ UNCHANGED <<clockVars, confVars, tokVars, dbVars, issued, last, lastWrite,
                   firstAt, nReq>>

FirstAt(user_id, game_slug, now) ==
    IF \E f \in firstAt : f[1] = user_id /\ f[2] = game_slug
    THEN firstAt
    ELSE firstAt \cup {<<user_id, game_slug, now>>}

\* main.py:205-215: update_one on the document found, or insert_one
UpsertWrite(p) ==
    /\ pc[p] = "upsert_write"
    /\ LET l == loc[p]
           existing == l.existing
           doc == [_id |-> Len(saves) + 1, user_id |-> l.uid, game_slug |-> l.game,
                   data |-> l.data, created_at |-> l.now, updated_at |-> l.now]
       IN  IF existing # NoSave
           THEN /\ saves' = save_update_one(existing._id, l.data, l.now)
                /\ lastWrite' = [existing EXCEPT !.data = l.data, !.updated_at = l.now]
                /\ last' = Response("modified", l,
                               [existing EXCEPT !.data = l.data, !.updated_at = l.now])
           ELSE /\ saves' = Append(saves, doc)
                /\ lastWrite' = doc
                /\ last' = Response("created", l, doc)
    /\ firstAt' = FirstAt(loc[p].uid, loc[p].game, loc[p].now)
    /\ pc' = [pc EXCEPT ![p] = "idle"]
    /\ loc' = [loc EXCEPT ![p] = NoLocals]
    /\ UNCHANGED <<clockVars, confVars, tokVars, users, issued, nReq>>

\* --------------------------------------------------------- specifications
Worker(p) ==
    \/ RegisterStart(p)
    \/ RegisterInsert(p)
    \/ Login(p)
    \/ get_saves(p)
    \/ UpsertStart(p)
    \/ UpsertFind(p)
    \/ UpsertWrite(p)

InitDb ==
    /\ users = <<>>
    /\ saves = <<>>
    /\ pc = [p \in Procs |-> "idle"]
    /\ loc = [p \in Procs |-> NoLocals]
    /\ issued = {}
    /\ last = Response("none", NoLocals, NoSave)
    /\ lastWrite = NoSave
    /\ firstAt = {}
    /\ nReq = 0

InitToken ==
    /\ clock \in 0..(Res - 1)
    /\ nTicks = 0
    /\ SECRET_KEY \in 1..MaxKey
    /\ TOKEN_EXP_MIN \in 1..MaxExpMin
    /\ tok = <<>>
    /\ origin = NoOrigin
    /\ vres = NotVerified
    /\ rejected = FALSE

InitHarness == InitToken /\ InitDb

InitConf ==
    /\ clock = 0
    /\ nTicks = 0
    /\ SECRET_KEY = MaxKey
    /\ TOKEN_EXP_MIN = 1
    /\ tok = <<>>
    /\ origin = NoOrigin
    /\ vres = NotVerified
    /\ rejected = FALSE

Init == InitConf /\ InitDb

vars == <<clock, nTicks, SECRET_KEY, TOKEN_EXP_MIN, tok, origin, vres, rejected,
          users, saves, pc, loc, issued, last, lastWrite, firstAt, nReq>>

\* create_token and verify_token applied to chosen strings and clocks
NextToken == Tick \/ Issue \/ Tamper \/ Present \/ PresentSigned \/ Verify

SpecToken == InitHarness /\ [][NextToken]_vars

\* the request handlers, run by NProcs concurrent workers
Next == Tick \/ \E p \in Procs : Worker(p)

Spec == Init /\ [][Next]_vars

\* the request handlers, one request at a time
NextSeq == Tick \/ Worker(1)

SpecSeq == Init /\ [][NextSeq]_vars

\* ================================================================ claims
\* the fields of the string under test
TokFields == Split(tok, ":")

\* the expiry create_token wrote into the issued token, in whole seconds
IssuedExp == Timestamp(origin.at + Minutes(TOKEN_EXP_MIN))

Accepted == vres.done /\ vres.res.kind = "return" /\ ~vres.res.none

\* C1: verify_token applied to the token create_token(u) returned, at the
\* time of issuance and under the same key, returns u.
RoundTrip ==
    (vres.done /\ origin.kind = "issued" /\ vres.at = origin.at)
        => vres.res = Return(origin.sub)

RoundTripWitness ==
    /\ vres.done /\ origin.kind = "issued" /\ vres.at = origin.at
    /\ origin.at % Res # 0
    /\ vres.res = Return(origin.sub)

\* C2 as stated: every verify_token of an issued token at a time greater
\* than T + ttl returns None.
ExpiryAfterTtl ==
    (vres.done /\ origin.kind = "issued"
        /\ vres.at > origin.at + Minutes(TOKEN_EXP_MIN))
        => vres.res = ReturnNone

\* C2 amended: every verify_token of an issued token at a time whose whole
\* second exceeds expiresAt = the whole second of T + ttl returns None, and
\* once the token has been refused it is never accepted again.
ExpiryWholeSeconds ==
    /\ (vres.done /\ origin.kind = "issued" /\ Timestamp(vres.at) > IssuedExp)
          => vres.res = ReturnNone
    /\ (vres.done /\ origin.kind = "issued" /\ rejected)
          => vres.res = ReturnNone

ExpiryWitness ==
    /\ vres.done /\ origin.kind = "issued"
    /\ Timestamp(vres.at) = IssuedExp + 1
    /\ vres.res = ReturnNone

\* C3 as stated: whenever verify_token accepts, expiresAt > now.
AcceptOnlyStrictFuture ==
    Accepted => ParseInt(TokFields[2]).val > Timestamp(vres.at)

\* C3 amended: whenever verify_token accepts, expiresAt >= now in whole
\* seconds, and an issued token verified at now = expiresAt is accepted.
AcceptNotPast ==
    /\ Accepted => ParseInt(TokFields[2]).val >= Timestamp(vres.at)
    /\ (vres.done /\ origin.kind = "issued" /\ Timestamp(vres.at) = IssuedExp)
          => vres.res = Return(origin.sub)

AcceptAtExpiryWitness ==
    /\ Accepted /\ origin.kind = "issued"
    /\ ParseInt(TokFields[2]).val = Timestamp(vres.at)

\* C4: a valid token with one character of its subject, expiry or signature
\* changed is refused, and verify_token accepts only a string whose third
\* field is the MAC of its first two under the current key.
TamperDetected ==
    /\ (vres.done /\ origin.kind = "tampered") => vres.res = ReturnNone
    /\ Accepted =>
          /\ Len(TokFields) = 3
          /\ TokFields[3] = hexdigest(SECRET_KEY, Payload(TokFields[1], TokFields[2]))
          /\ vres.res.val = TokFields[1]

\* the expiry field was changed to a later time, while the token as issued
\* was still valid
TamperWitness ==
    /\ vres.done /\ origin.kind = "tampered" /\ origin.field = 2
    /\ Len(TokFields) = 3
    /\ ParseInt(TokFields[2]).ok
    /\ ParseInt(TokFields[2]).val > IssuedExp
    /\ Timestamp(vres.at) <= IssuedExp
    /\ vres.res = ReturnNone

\* C5: verify_token returns for every string, and returns None for a string
\* that has not exactly three fields or whose expiry field is no integer.
NeverRaises ==
    vres.done =>
        /\ vres.res.kind = "return"
        /\ (Len(TokFields) # 3 \/ ~ParseInt(TokFields[2]).ok)
              => vres.res = ReturnNone

\* the signature is right and int() is reached, on a field it cannot parse
MalformedWitness ==
    /\ vres.done /\ origin.kind = "signed"
    /\ ~ParseInt(TokFields[2]).ok
    /\ vres.res = ReturnNone

\* the documents of db["save"] under a key
Under(user_id, game_slug) ==
    {i \in 1..Len(saves) :
        saves[i].user_id = user_id /\ saves[i].game_slug = game_slug}

\* C6: with one request at a time, an upsert of a key that already has a
\* record leaves one record, whose data is the new payload in full, whose
\* created_at is the first call's time and whose updated_at is this call's.
SequentialOverwrite ==
    last.op = "modified" =>
        LET s == save_find_one(last.uid, last.game)
        IN  /\ Cardinality(Under(last.uid, last.game)) = 1
            /\ s.data = last.data
            /\ <<last.uid, last.game, s.created_at>> \in firstAt
            /\ s.updated_at = last.now
            /\ s.updated_at >= s.created_at

OverwriteWitness ==
    /\ last.op = "modified"
    /\ last.existing.data # last.data
    /\ last.now > last.existing.updated_at
    /\ save_find_one(last.uid, last.game).data = last.data

\* C7: once the upserts have completed, get(u, g) is the write that
\* committed last, in full.
RaceLastCommitWins ==
    ((\A p \in Procs : pc[p] = "idle") /\ lastWrite # NoSave) =>
        LET s == save_find_one(lastWrite.user_id, lastWrite.game_slug)
        IN  /\ s.data = lastWrite.data
            /\ s.updated_at = lastWrite.updated_at

\* C8: db["save"] holds at most one document per (user_id, game_slug).
KeyUnique ==
    \A i, j \in 1..Len(saves) :
        (saves[i].user_id = saves[j].user_id
            /\ saves[i].game_slug = saves[j].game_slug) => i = j

\* C9: a step changes db["save"] only as the write of an upsert whose bearer
\* token verified to the user_id of every document it changes or creates,
\* and a response carries a save document only when the request's bearer
\* token verified to that document's user_id.
OwnershipStep ==
    /\ saves' # saves =>
          \E p \in Procs :
              /\ pc[p] = "upsert_write" /\ pc'[p] = "idle"
              /\ loc[p].auth.present /\ IsBearer(loc[p].auth)
              /\ verify_token_at(loc[p].auth.token, loc[p].at) = Return(loc[p].uid)
              /\ \A i \in 1..Len(saves') :
                    (i > Len(saves) \/ saves'[i] # saves[i])
                        => saves'[i].user_id = loc[p].uid
    /\ (last' # last /\ last'.rec # NoSave) =>
          /\ last'.auth.present /\ IsBearer(last'.auth)
          /\ verify_token_at(last'.auth.token, last'.at) = Return(last'.rec.user_id)

Ownership == [][OwnershipStep]_vars

\* a record is returned to its owner while another identity holds a token
OwnershipWitness ==
    /\ last.op = "returned"
    /\ last.rec.user_id = last.uid
    /\ Len(users) > 1
    /\ Cardinality(issued) > 1

\* C10: db["user"] holds at most one document per lower-cased e-mail, so of
\* two register calls with one e-mail at most one succeeds.
EmailUnique ==
    \A i, j \in 1..Len(users) : users[i].email = users[j].email => i = j

====
